---- MODULE Spec2Model ----
(***************************************************************************)
(* The write path of linera-views/src/dynamo_db.rs: the transaction        *)
(* builder, the fast path, the journal (write_journal, the replay of       *)
(* coherently_resolve_journal) and clear_journal, over a table that is     *)
(* changed only by atomic TransactWriteItems calls.                        *)
(*                                                                         *)
(* Keys are sequences of bytes.  A stored value is a record                *)
(*   [len, bytes, deletions, insertions]                                   *)
(* where len is the length in bytes of the value; a user value carries one *)
(* byte of content in bytes (the rest of its len bytes is not looked at by *)
(* the code), a journal header carries the four bytes bcs writes for its   *)
(* u32, and a block entry carries the batch that bcs serialized, len being *)
(* the length of that serialization.                                       *)
(***************************************************************************)
EXTENDS Integers, Sequences, FiniteSets, TLC

VARIABLES
    store,      \* the table: a function from the keys present to their values
    cl,         \* the clients: a function from client id to the client's record
    calls,      \* the number of write_batch and clear_journal calls made so far
    crashes     \* the number of terminations injected so far

vars == <<store, cl, calls, crashes>>

(***************************************************************************)
(* Bounds of the model                                                     *)
(***************************************************************************)
MaxCalls == 2

MaxCrashes == 1

(***************************************************************************)
(* Program constants (dynamo_db.rs lines 35-67, 230-236)                   *)
(***************************************************************************)
JOURNAL_TAG == 0

MAX_VALUE_BYTES == 409600

MAX_TRANSACT_WRITE_ITEM_SIZE == 100

MAX_BATCH_WRITE_ITEM_BYTES == 16777216

\* The most backend connections the client advertises.
MAX_CONNECTIONS == 50

KeyTagJournal == 1

KeyTagEntry == 2

\* The base_key of the one region the clients write to (scenario S1).
BaseKey == <<16>>

(***************************************************************************)
(* Bytes                                                                   *)
(***************************************************************************)
\* The length of the ULEB128 encoding bcs gives a sequence length n.
UlebLen(n) ==
    IF n < 128 THEN 1
    ELSE IF n < 16384 THEN 2
    ELSE IF n < 2097152 THEN 3
    ELSE IF n < 268435456 THEN 4
    ELSE 5

\* bcs of a u32: four bytes, least significant first.
SerializeU32(n) ==
    <<n % 256, (n \div 256) % 256, (n \div 65536) % 256, (n \div 16777216) % 256>>

\* The u32 four bytes stand for.
DeserializeU32(b) == b[1] + 256 * b[2] + 65536 * b[3] + 16777216 * b[4]

\* A user value of len bytes with the content id.
RawValue(id, len) ==
    [len |-> len, bytes |-> <<id>>, deletions |-> <<>>, insertions |-> <<>>]

\* Option: None is the empty sequence, Some(v) the sequence of v alone.
None == <<>>

Some(v) == <<v>>


(***************************************************************************)
(* Keys                                                                    *)
(***************************************************************************)
\* A journaling key without the tag.
get_journaling_key_untagged(base_key, tag, pos) ==
    base_key \o <<JOURNAL_TAG>> \o SerializeU32(pos)

\* get_journaling_key: base_key, JOURNAL_TAG, the tag, then bcs of pos.
get_journaling_key(base_key, tag, pos) ==
    base_key \o <<JOURNAL_TAG, tag>> \o SerializeU32(pos)

\* The key of the header of the journal of base_key.
HeaderKey(base_key) == get_journaling_key(base_key, KeyTagJournal, 0)

\* One entry key for every block.
EntryKeyShared(base_key, pos) == get_journaling_key(base_key, KeyTagEntry, 0)

\* The key of block pos of the journal of base_key.
EntryKey(base_key, pos) == get_journaling_key(base_key, KeyTagEntry, pos)

\* begins_with(item_key, prefix) of the Query's key condition.
StartsWith(key, prefix) ==
    /\ Len(prefix) <= Len(key)
    /\ \A n \in 1..Len(prefix) : key[n] = prefix[n]

RECURSIVE SortedFrom(_, _, _, _)
\* The keys of the set S in lexicographic order, S being keys of at least pos
\* bytes that agree on their first pos - 1 bytes and have byte pos in lo..hi.
SortedFrom(S, pos, lo, hi) ==
    IF Cardinality(S) <= 1 THEN (IF S = {} THEN <<>> ELSE <<CHOOSE k \in S : TRUE>>)
    ELSE IF lo < hi /\ Cardinality({k[pos] : k \in S}) > 1
    THEN SortedFrom({k \in S : k[pos] <= (lo + hi) \div 2}, pos, lo, (lo + hi) \div 2)
         \o SortedFrom({k \in S : k[pos] > (lo + hi) \div 2}, pos, (lo + hi) \div 2 + 1, hi)
    ELSE (IF \E k \in S : Len(k) = pos THEN <<CHOOSE k \in S : Len(k) = pos>> ELSE <<>>)
         \o SortedFrom({k \in S : Len(k) > pos}, pos + 1, 0, 255)

\* The keys of a set in lexicographic order.
SortedSet(S) ==
    (IF <<>> \in S THEN <<(<<>>)>> ELSE <<>>) \o SortedFrom(S \ {<<>>}, 1, 0, 255)

(***************************************************************************)
(* The table                                                               *)
(***************************************************************************)
\* GetItem: read_key_bytes_general.
read_key_bytes(st, key) == IF key \in DOMAIN st THEN Some(st[key]) ELSE None

\* One operation of a transaction.
DeleteItem(key) == [kind |-> "delete", key |-> key, value |-> RawValue(0, 0)]

PutItem(key, value) == [kind |-> "put", key |-> key, value |-> value]

TransactKeys(transacts) == {transacts[n].key : n \in 1..Len(transacts)}

RECURSIVE TransactBytes(_, _, _)
\* The bytes of keys and values operations lo..hi of a transaction carry.
TransactBytes(transacts, lo, hi) ==
    IF lo > hi THEN 0
    ELSE IF lo = hi
    THEN Len(transacts[lo].key)
         + (IF transacts[lo].kind = "put" THEN transacts[lo].value.len ELSE 0)
    ELSE TransactBytes(transacts, lo, (lo + hi) \div 2)
         + TransactBytes(transacts, (lo + hi) \div 2 + 1, hi)

RECURSIVE PutsOf(_, _, _)
\* The puts among operations lo..hi, as a function from key to value.
PutsOf(transacts, lo, hi) ==
    IF lo > hi THEN <<>>
    ELSE IF lo = hi
    THEN (IF transacts[lo].kind = "put"
          THEN transacts[lo].key :> transacts[lo].value ELSE <<>>)
    ELSE PutsOf(transacts, lo, (lo + hi) \div 2)
         @@ PutsOf(transacts, (lo + hi) \div 2 + 1, hi)

\* TransactWriteItems: every operation is applied, or none.  The service
\* refuses a transaction that names one item twice.
TransactWriteItems(st, transacts) ==
    LET keys == TransactKeys(transacts)
    IN IF Cardinality(keys) # Len(transacts)
       THEN [err |-> "TransactWriteItem", store |-> st]
       ELSE [err |-> "Ok",
             store |-> PutsOf(transacts, 1, Len(transacts))
                       @@ [k \in DOMAIN st \ keys |-> st[k]]]

(***************************************************************************)
(* TransactionBuilder                                                      *)
(***************************************************************************)
\* A builder: the operations pushed so far and the first error met ("Ok" when
\* none): an operation after an error is not reached, as with `?`.
EmptyBuilder == [err |-> "Ok", transacts |-> <<>>]

insert_delete_request(tb, key) ==
    IF tb.err # "Ok" THEN tb
    ELSE IF key = <<>> THEN [tb EXCEPT !.err = "ZeroLengthKey"]
    ELSE [tb EXCEPT !.transacts = Append(@, DeleteItem(key))]

ValueTooLarge(value) == value.len > MAX_VALUE_BYTES

insert_put_request(tb, key, value) ==
    IF tb.err # "Ok" THEN tb
    ELSE IF key = <<>> THEN [tb EXCEPT !.err = "ZeroLengthKey"]
    ELSE IF ValueTooLarge(value) THEN [tb EXCEPT !.err = "ValueLengthTooLarge"]
    ELSE [tb EXCEPT !.transacts = Append(@, PutItem(key, value))]

\* Two stretches of pushes, one after the other: the second is not reached
\* when the first met an error.
Then(tb1, tb2) ==
    IF tb1.err # "Ok" THEN tb1
    ELSE [err |-> tb2.err, transacts |-> tb1.transacts \o tb2.transacts]

\* for delete in deletions { tb.insert_delete_request(delete, db)?; } from an
\* empty builder: the pushes before the first that fails, and its error.
DeleteRequests(deletions) ==
    LET one(n) == insert_delete_request(EmptyBuilder, deletions[n])
        failed == {n \in 1..Len(deletions) : one(n).err # "Ok"}
        stop == IF failed = {} THEN Len(deletions) + 1
                ELSE CHOOSE n \in failed : \A m \in failed : n <= m
    IN [err |-> IF failed = {} THEN "Ok" ELSE one(stop).err,
        transacts |-> [n \in 1..(stop - 1) |-> one(n).transacts[1]]]

\* for key_value in insertions { tb.insert_put_request(key_value.0, key_value.1, db)?; }
PutRequests(insertions) ==
    LET one(n) == insert_put_request(EmptyBuilder, insertions[n][1], insertions[n][2])
        failed == {n \in 1..Len(insertions) : one(n).err # "Ok"}
        stop == IF failed = {} THEN Len(insertions) + 1
                ELSE CHOOSE n \in failed : \A m \in failed : n <= m
    IN [err |-> IF failed = {} THEN "Ok" ELSE one(stop).err,
        transacts |-> [n \in 1..(stop - 1) |-> one(n).transacts[1]]]

\* The builder tb after the deletes, then the puts, of a batch are pushed.
InsertBatch(tb, batch) ==
    Then(tb, Then(DeleteRequests(batch.deletions), PutRequests(batch.insertions)))

\* The most operations submit lets through.
SubmitLimit == MAX_TRANSACT_WRITE_ITEM_SIZE

\* A submit that does not count the operations.
submit_unchecked(tb, st) ==
    IF tb.transacts # <<>>
    THEN LET r == TransactWriteItems(st, tb.transacts)
         IN [err |-> r.err, store |-> r.store, sent |-> TRUE]
    ELSE [err |-> "Ok", store |-> st, sent |-> FALSE]

\* submit: [err, store, sent]: sent tells whether the network call was made.
submit(tb, st) ==
    IF Len(tb.transacts) > SubmitLimit
    THEN [err |-> "TransactUpperLimitSize", store |-> st, sent |-> FALSE]
    ELSE IF tb.transacts # <<>>
    THEN LET r == TransactWriteItems(st, tb.transacts)
         IN [err |-> r.err, store |-> r.store, sent |-> TRUE]
    ELSE [err |-> "Ok", store |-> st, sent |-> FALSE]

\* write_single_key_value: one put, submitted alone.
write_single_key_value(st, key, value) ==
    LET tb == insert_put_request(EmptyBuilder, key, value)
    IN IF tb.err # "Ok" THEN [err |-> tb.err, store |-> st, sent |-> FALSE]
       ELSE submit(tb, st)

(***************************************************************************)
(* Journal codec                                                           *)
(***************************************************************************)
\* bcs::to_bytes(&JournalHeader { block_count }).
HeaderToBytes(block_count) ==
    [len |-> 4, bytes |-> SerializeU32(block_count),
     deletions |-> <<>>, insertions |-> <<>>]

\* bcs::from_bytes::<JournalHeader>.
HeaderFromBytes(value) == DeserializeU32(value.bytes)

RECURSIVE DeletionsLen(_, _, _)
DeletionsLen(deletions, lo, hi) ==
    IF lo > hi THEN 0
    ELSE IF lo = hi THEN UlebLen(Len(deletions[lo])) + Len(deletions[lo])
    ELSE DeletionsLen(deletions, lo, (lo + hi) \div 2)
         + DeletionsLen(deletions, (lo + hi) \div 2 + 1, hi)

RECURSIVE InsertionsLen(_, _, _)
InsertionsLen(insertions, lo, hi) ==
    IF lo > hi THEN 0
    ELSE IF lo = hi
    THEN UlebLen(Len(insertions[lo][1])) + Len(insertions[lo][1])
         + UlebLen(insertions[lo][2].len) + insertions[lo][2].len
    ELSE InsertionsLen(insertions, lo, (lo + hi) \div 2)
         + InsertionsLen(insertions, (lo + hi) \div 2 + 1, hi)

\* bcs::to_bytes(&DynamoDbBatch(..)): two vectors, each its ULEB128 length then
\* its elements, a byte string being its ULEB128 length then its bytes.
BatchToBytes(batch) ==
    [len |-> UlebLen(Len(batch.deletions))
             + DeletionsLen(batch.deletions, 1, Len(batch.deletions))
             + UlebLen(Len(batch.insertions))
             + InsertionsLen(batch.insertions, 1, Len(batch.insertions)),
     bytes |-> <<>>,
     deletions |-> batch.deletions,
     insertions |-> batch.insertions]

\* bcs::from_bytes::<DynamoDbBatch>.
BatchFromBytes(value) ==
    [deletions |-> value.deletions, insertions |-> value.insertions]

(***************************************************************************)
(* Batch normalizer: Batch::simplify and expand_delete_prefixes of         *)
(* batch.rs, by section 4.3 of the specification.  A user batch is a       *)
(* sequence of operations [op, key, value], op one of "Put", "Delete" and  *)
(* "DeletePrefix" (key is then the prefix).                                *)
(***************************************************************************)
PutOp(key, value) == [op |-> "Put", key |-> key, value |-> value]

DeleteOp(key) == [op |-> "Delete", key |-> key, value |-> RawValue(0, 0)]

DeletePrefixOp(key_prefix) ==
    [op |-> "DeletePrefix", key |-> key_prefix, value |-> RawValue(0, 0)]

\* Whether a later operation of the batch overrides operation n: a put or a
\* delete of its key, or a prefix delete that covers its key.
Overridden(batch, n) ==
    \E m \in (n + 1)..Len(batch) :
        IF batch[m].op = "DeletePrefix"
        THEN StartsWith(batch[n].key, batch[m].key)
        ELSE batch[m].key = batch[n].key

\* The puts and deletes of the batch that no later operation overrides.
LastOps(batch) ==
    {n \in 1..Len(batch) : batch[n].op # "DeletePrefix" /\ ~Overridden(batch, n)}

\* The keys of the operations of kind op among the operations idx.
KeysWhere(batch, idx, op) == {batch[n].key : n \in {m \in idx : batch[m].op = op}}

\* simplify: the prefix deletions, and per key named by a put or a delete the
\* effect of the last operation on it, the keys in lexicographic order (the
\* order of a BTreeSet of byte vectors).
Simplify(batch) ==
    LET last == LastOps(batch)
        puts == SortedSet(KeysWhere(batch, last, "Put"))
    IN [key_prefix_deletions |->
            SortedSet(KeysWhere(batch, 1..Len(batch), "DeletePrefix")),
        deletions |-> SortedSet(KeysWhere(batch, last, "Delete")),
        insertions |->
            [n \in 1..Len(puts) |->
                <<puts[n], batch[CHOOSE m \in last : batch[m].key = puts[n]].value>>]]

\* extract_key: the key of an item without its first prefix_len bytes.
extract_key(prefix_len, key) == SubSeq(key, prefix_len + 1, Len(key))

\* The most data one Query response covers (1 MB): the service ends the
\* response there and hands back LastEvaluatedKey for the rest.
QUERY_RESPONSE_BYTES == 1048576

RECURSIVE ItemsSize(_, _, _, _)
\* The bytes of keys and values of items lo..hi of a sequence of keys of st.
ItemsSize(st, keys, lo, hi) ==
    IF lo > hi THEN 0
    ELSE IF lo = hi THEN Len(keys[lo]) + st[keys[lo]].len
    ELSE ItemsSize(st, keys, lo, (lo + hi) \div 2)
         + ItemsSize(st, keys, (lo + hi) \div 2 + 1, hi)

RECURSIVE PageLen(_, _, _, _)
\* The most items n in lo..hi such that items 1..n fit one response, items
\* 1..lo fitting.
PageLen(st, keys, lo, hi) ==
    IF lo >= hi THEN lo
    ELSE IF ItemsSize(st, keys, 1, (lo + hi + 1) \div 2) <= QUERY_RESPONSE_BYTES
    THEN PageLen(st, keys, (lo + hi + 1) \div 2, hi)
    ELSE PageLen(st, keys, lo, (lo + hi + 1) \div 2 - 1)

\* get_query_output: one Query with begins_with(key, prefix); the response
\* holds the matching items in the order of the sort key, up to the first
\* that does not fit, and tells whether there are more.
get_query_output(st, key_prefix) ==
    LET matching == SortedSet({j \in DOMAIN st : StartsWith(j, key_prefix)})
        n == PageLen(st, matching, 0, Len(matching))
    IN [items |-> SubSeq(matching, 1, n), last_evaluated_key |-> n < Len(matching)]

\* A find_keys_by_prefix that sends its Query before it looks at the prefix.
find_keys_by_prefix_late(st, key_prefix) ==
    LET response == get_query_output(st, key_prefix)
    IN IF key_prefix = <<>>
       THEN [err |-> "ZeroLengthKeyPrefix", list |-> <<>>,
             queries |-> 1, truncated |-> FALSE]
       ELSE [err |-> "Ok",
             list |-> [n \in 1..Len(response.items) |->
                          extract_key(Len(key_prefix), response.items[n])],
             queries |-> 1,
             truncated |-> response.last_evaluated_key]

\* find_keys_by_prefix: one Query; list holds the keys of the items of its
\* response, each without the prefix, as the iterator gives them.
\* LastEvaluatedKey is not looked at.
find_keys_by_prefix(st, key_prefix) ==
    IF key_prefix = <<>>
    THEN [err |-> "ZeroLengthKeyPrefix", list |-> <<>>,
          queries |-> 0, truncated |-> FALSE]
    ELSE LET response == get_query_output(st, key_prefix)
         IN [err |-> "Ok",
             list |-> [n \in 1..Len(response.items) |->
                          extract_key(Len(key_prefix), response.items[n])],
             queries |-> 1,
             truncated |-> response.last_evaluated_key]

\* find_key_values_by_prefix: one Query; the keys, each without the prefix,
\* and the values of the items of its response, in its order.
find_key_values_by_prefix(st, key_prefix) ==
    IF key_prefix = <<>>
    THEN [err |-> "ZeroLengthKeyPrefix", list |-> <<>>, queries |-> 0, truncated |-> FALSE]
    ELSE LET response == get_query_output(st, key_prefix)
         IN [err |-> "Ok",
             list |-> [n \in 1..Len(response.items) |->
                          <<extract_key(Len(key_prefix), response.items[n]),
                            st[response.items[n]]>>],
             queries |-> 1,
             truncated |-> response.last_evaluated_key]

\* expand_delete_prefix: the error of find_keys_by_prefix, or the short keys
\* its iterator gives, in its order.
expand_delete_prefix(st, key_prefix) ==
    CHOOSE e \in {[err |-> r.err, list |-> r.list, queries |-> r.queries] :
                      r \in {find_keys_by_prefix(st, key_prefix)}} : TRUE

\* The batch expand_delete_prefixes gives once the expander has answered for
\* each prefix (expanded[n] for prefix n): the first error of the expander,
\* or every live key under a deleted prefix (the prefix and the short key the
\* expander gives) as a delete, unless the batch inserts it.
ExpandedBatch(unordered, expanded) ==
    LET prefixes == unordered.key_prefix_deletions
        failed == {n \in 1..Len(prefixes) : expanded[n].err # "Ok"}
        first == CHOOSE n \in failed : \A m \in failed : n <= m
        found == UNION {{prefixes[n] \o expanded[n].list[m] :
                             m \in 1..Len(expanded[n].list)} : n \in 1..Len(prefixes)}
        inserted == {unordered.insertions[n][1] : n \in 1..Len(unordered.insertions)}
        deleted == {unordered.deletions[n] : n \in 1..Len(unordered.deletions)}
    IN IF failed # {}
       THEN [err |-> expanded[first].err,
             queries |-> (first - 1) + expanded[first].queries,
             batch |-> [deletions |-> <<>>, insertions |-> <<>>]]
       ELSE [err |-> "Ok", queries |-> Len(prefixes),
             batch |-> [deletions |-> unordered.deletions
                                      \o SortedSet((found \ inserted) \ deleted),
                        insertions |-> unordered.insertions]]

\* expand_delete_prefixes: the expander is asked for each deleted prefix.
ExpandDeletePrefixes(st, unordered) ==
    IF unordered.key_prefix_deletions = <<>>
    THEN [err |-> "Ok", queries |-> 0,
          batch |-> [deletions |-> unordered.deletions,
                     insertions |-> unordered.insertions]]
    ELSE CHOOSE r \in {ExpandedBatch(unordered, expanded) :
                           expanded \in {[n \in 1..Len(unordered.key_prefix_deletions) |->
                                             expand_delete_prefix(
                                                 st, unordered.key_prefix_deletions[n])]}} :
             TRUE

(***************************************************************************)
(* DynamoDbBatch                                                           *)
(***************************************************************************)
EmptyBatch == [deletions |-> <<>>, insertions |-> <<>>]

BatchLen(b) == Len(b.deletions) + Len(b.insertions)

\* A fast path that a batch of exactly the transaction limit does not take.
is_fastpath_feasible_below(b) == BatchLen(b) < MAX_TRANSACT_WRITE_ITEM_SIZE

is_fastpath_feasible(b) == BatchLen(b) <= MAX_TRANSACT_WRITE_ITEM_SIZE

\* A header operation that is a put at every block count.
add_journal_header_operations_put(tb, block_count, base_key) ==
    insert_put_request(tb, HeaderKey(base_key), HeaderToBytes(block_count))

\* add_journal_header_operations: put the header, or delete it at zero.
add_journal_header_operations(tb, block_count, base_key) ==
    IF block_count > 0
    THEN insert_put_request(tb, HeaderKey(base_key), HeaderToBytes(block_count))
    ELSE insert_delete_request(tb, HeaderKey(base_key))

\* The size write_journal counts for operation n (from 0) of deletions ++ insertions.
OpSize(b, n) ==
    IF n < Len(b.deletions)
    THEN Len(b.deletions[n + 1])
    ELSE Len(b.insertions[n - Len(b.deletions) + 1][1])
         + b.insertions[n - Len(b.deletions) + 1][2].len

\* A block closed at the transaction limit itself, without the slack of two.
BlockCapacityNoSlack == MAX_TRANSACT_WRITE_ITEM_SIZE

\* The number of operations at which write_journal closes a block.
BlockCapacity == MAX_TRANSACT_WRITE_ITEM_SIZE - 2

RECURSIVE SizeOf(_, _, _)
\* What the operations lo..hi (from 0) add to curr_size.
SizeOf(b, lo, hi) ==
    IF lo > hi THEN 0
    ELSE IF lo = hi THEN OpSize(b, lo)
    ELSE SizeOf(b, lo, (lo + hi) \div 2) + SizeOf(b, (lo + hi) \div 2 + 1, hi)

\* A do_flush that closes the block once its own size is above the bound.
do_flush_after(b, n, i, curr_size) ==
    IF i = BatchLen(b) - 1 \/ i - n + 1 = BlockCapacity
    THEN TRUE
    ELSE curr_size > MAX_BATCH_WRITE_ITEM_BYTES

\* do_flush at operation i of a block that began at operation n, curr_size
\* being the size counted up to and with i.
do_flush(b, n, i, curr_size) ==
    IF i = BatchLen(b) - 1 \/ i - n + 1 = BlockCapacity
    THEN TRUE
    ELSE curr_size + OpSize(b, i + 1) > MAX_BATCH_WRITE_ITEM_BYTES

RECURSIVE FirstFlush(_, _, _, _, _)
\* The loop of write_journal over operations lo..hi of a block that began at
\* operation n, curr_size being the size counted before lo: the first
\* operation at which do_flush is true, or -1 when there is none in lo..hi.
FirstFlush(b, n, lo, hi, curr_size) ==
    IF lo > hi THEN -1
    ELSE IF lo = hi
    THEN (IF do_flush(b, n, lo, curr_size + OpSize(b, lo)) THEN lo ELSE -1)
    ELSE LET mid == (lo + hi) \div 2
             first == FirstFlush(b, n, lo, mid, curr_size)
         IN IF first # -1 THEN first
            ELSE FirstFlush(b, n, mid + 1, hi, curr_size + SizeOf(b, lo, mid))

\* The operation at which write_journal flushes the block that begins at
\* operation n.
FlushIndex(b, n) == FirstFlush(b, n, n, BatchLen(b) - 1, 0)

\* A block that leaves out the operation at which it was flushed.
BlockOfShort(b, from, to) ==
    LET dc == Len(b.deletions)
    IN [deletions |-> SubSeq(b.deletions, from + 1, IF to < dc THEN to ELSE dc),
        insertions |-> SubSeq(b.insertions,
                              (IF from < dc THEN 1 ELSE from - dc + 1), to - dc)]

\* A block that begins with the operation its predecessor was flushed at.
BlockOfOverlap(b, from, to) ==
    LET dc == Len(b.deletions)
        first == IF from > 0 THEN from - 1 ELSE 0
    IN [deletions |-> SubSeq(b.deletions, first + 1, IF to + 1 < dc THEN to + 1 ELSE dc),
        insertions |-> SubSeq(b.insertions,
                              (IF first < dc THEN 1 ELSE first - dc + 1), to - dc + 1)]

\* The block holding operations from..to (from 0) of deletions ++ insertions.
BlockOf(b, from, to) ==
    LET dc == Len(b.deletions)
    IN [deletions |-> SubSeq(b.deletions, from + 1, IF to + 1 < dc THEN to + 1 ELSE dc),
        insertions |-> SubSeq(b.insertions,
                              (IF from < dc THEN 1 ELSE from - dc + 1), to - dc + 1)]

\* The test that ends the loop of coherently_resolve_journal.
JournalDrained(block_count) == block_count = 0

\* A transaction of the puts alone.
FastpathBuilderPutsOnly(b) == InsertBatch(EmptyBuilder, [b EXCEPT !.deletions = <<>>])

\* The transaction of write_fastpath_failsafe.
FastpathBuilder(b) == InsertBatch(EmptyBuilder, b)

\* A replay step that pushes the header operation before block_count is
\* decremented.
ReplayBuilderLate(entry, pos, base_key) ==
    add_journal_header_operations(
        InsertBatch(insert_delete_request(EmptyBuilder, EntryKey(base_key, pos)), entry),
        pos + 1, base_key)

\* A replay step that leaves its entry in the table.
ReplayBuilderKeepsEntry(entry, pos, base_key) ==
    add_journal_header_operations(InsertBatch(EmptyBuilder, entry), pos, base_key)

\* The transaction of one step of coherently_resolve_journal, for the entry
\* read under block index pos: the entry's delete, its deletes, its puts, and
\* the header at block_count = pos.
ReplayBuilder(entry, pos, base_key) ==
    add_journal_header_operations(
        InsertBatch(insert_delete_request(EmptyBuilder, EntryKey(base_key, pos)), entry),
        pos, base_key)

(***************************************************************************)
(* Inputs: the batches a caller hands to write_batch                       *)
(***************************************************************************)
\* A user key of the region: base_key, a view tag (at least MIN_VIEW_TAG), a byte.
UKey(tag, n) == BaseKey \o <<tag, n>>

\* put(UKey(tag, lo)), ..., put(UKey(tag, hi)), every value id with len bytes.
Puts(tag, lo, hi, id, len) ==
    [n \in 1..(hi - lo + 1) |-> PutOp(UKey(tag, lo + n - 1), RawValue(id, len))]

Deletes(tag, lo, hi) ==
    [n \in 1..(hi - lo + 1) |-> DeleteOp(UKey(tag, lo + n - 1))]

\* S1: two puts.
BatchSmall == Puts(1, 1, 2, 1, 1)

\* S3: a prefix delete and a put under the prefix.
BatchPrefix == <<DeletePrefixOp(BaseKey \o <<1>>)>> \o Puts(1, 3, 3, 2, 1)

\* One more put than a transaction holds: two blocks.
BatchJournal == Puts(1, 1, MAX_TRANSACT_WRITE_ITEM_SIZE + 1, 3, 1024)

\* Deletes and puts over three blocks, the second holding both.
BatchJournalMixed ==
    Deletes(1, 1, BlockCapacity + 1) \o Puts(2, 1, BlockCapacity, 4, 1024)

\* A journaled batch with a put under the empty key.
BatchJournalEmptyKey ==
    Puts(1, 1, MAX_TRANSACT_WRITE_ITEM_SIZE, 5, 8) \o <<PutOp(<<>>, RawValue(5, 8))>>

\* A journaled batch whose last put is one byte over MAX_VALUE_BYTES.
BatchJournalOversize ==
    Puts(1, 1, MAX_TRANSACT_WRITE_ITEM_SIZE, 6, 8)
    \o <<PutOp(UKey(1, MAX_TRANSACT_WRITE_ITEM_SIZE + 1), RawValue(6, MAX_VALUE_BYTES + 1))>>

\* A journaled batch of valid puts, 5000 bytes each.
BatchJournalHeavy == Puts(1, 1, MAX_TRANSACT_WRITE_ITEM_SIZE + 1, 7, 5000)

\* A journaled batch of puts of the largest value: its blocks are closed by
\* their size in bytes.
BatchJournalLargest == Puts(1, 1, MAX_TRANSACT_WRITE_ITEM_SIZE + 1, 10, MAX_VALUE_BYTES)

\* A full fast-path batch of puts of the largest value.
BatchFastHeavy == Puts(1, 1, MAX_TRANSACT_WRITE_ITEM_SIZE, 8, MAX_VALUE_BYTES)

\* Fast-path batches with an empty key (a put, a delete), and S6.
BatchFastEmptyKey == Puts(1, 1, 1, 9, 1) \o <<PutOp(<<>>, RawValue(9, 1))>>

BatchFastEmptyDelete == Puts(1, 1, 1, 9, 1) \o <<DeleteOp(<<>>)>>

BatchFastOversize == <<PutOp(UKey(1, 1), RawValue(9, 500000))>>

Batches ==
    {BatchSmall, BatchPrefix, BatchJournal, BatchJournalMixed, BatchJournalEmptyKey,
     BatchJournalOversize, BatchJournalHeavy, BatchJournalLargest, BatchFastHeavy,
     BatchFastEmptyKey,
     BatchFastEmptyDelete, BatchFastOversize, <<>>}

\* The operations of the short batches: puts of two values and a delete of a
\* key under the prefix BaseKey ++ <<1>> that SeedStore holds, a put of one it
\* does not hold, a put outside the prefix, the prefix delete, and a prefix
\* delete of the empty prefix.
SmallOps ==
    {PutOp(UKey(1, 1), RawValue(11, 1)), PutOp(UKey(1, 1), RawValue(12, 2)),
     DeleteOp(UKey(1, 1)), PutOp(UKey(1, 3), RawValue(12, 2)),
     PutOp(UKey(2, 2), RawValue(11, 1)),
     DeletePrefixOp(BaseKey \o <<1>>), DeletePrefixOp(<<>>)}

\* Every batch of at most two of these operations, and two of three.
SmallBatches ==
    {<<>>} \cup {<<a>> : a \in SmallOps} \cup {<<a, b>> : a \in SmallOps, b \in SmallOps}
    \cup {<<PutOp(UKey(1, 1), RawValue(11, 1)), DeletePrefixOp(BaseKey \o <<1>>),
            PutOp(UKey(1, 1), RawValue(12, 2))>>,
          <<DeletePrefixOp(BaseKey \o <<1>>), PutOp(UKey(1, 3), RawValue(12, 2)),
            DeleteOp(UKey(1, 3))>>}

\* The normal form of every batch of Batches and SmallBatches.
SimplifyTable == [b \in Batches \cup SmallBatches |-> Simplify(b)]

\* from_batch: the batch is simplified, then its prefix deletions are expanded
\* against the table.
from_batch(st, batch) == ExpandDeletePrefixes(st, SimplifyTable[batch])

EmptyStore == [k \in {} |-> RawValue(0, 0)]

\* The pre-state of S3: p/a, p/b and q/a.
SeedStore ==
    [k \in {UKey(1, 1), UKey(1, 2), UKey(2, 1)} |-> RawValue(1, 1)]

\* BatchJournal as write_batch normalizes it against SeedStore, and the two
\* blocks write_journal cuts it into.
CrashedBatch == from_batch(SeedStore, BatchJournal).batch

CrashedBlock0 == BlockOf(CrashedBatch, 0, FlushIndex(CrashedBatch, 0))

CrashedBlock1 ==
    BlockOf(CrashedBatch, BatchLen(CrashedBlock0),
            FlushIndex(CrashedBatch, BatchLen(CrashedBlock0)))

\* The table a process leaves when it ends between the header write of
\* write_journal and the first turn of coherently_resolve_journal: SeedStore,
\* the two blocks of BatchJournal under their entry keys, and the header.
CrashedStore ==
    LET s1 == write_single_key_value(SeedStore, EntryKey(BaseKey, 0),
                                     BatchToBytes(CrashedBlock0)).store
        s2 == write_single_key_value(s1, EntryKey(BaseKey, 1),
                                     BatchToBytes(CrashedBlock1)).store
    IN write_single_key_value(s2, HeaderKey(BaseKey), HeaderToBytes(2)).store

(***************************************************************************)
(* Clients                                                                 *)
(***************************************************************************)
\* Every key of a normalized batch is non-empty and every value is at most
\* MAX_VALUE_BYTES long.
ValidBatch(b) ==
    /\ \A n \in 1..Len(b.deletions) : b.deletions[n] # <<>>
    /\ \A n \in 1..Len(b.insertions) :
          b.insertions[n][1] # <<>> /\ ~ValueTooLarge(b.insertions[n][2])

NoTx == [kind |-> "none", count |-> 0, bytes |-> 0]

NoPrev ==
    [op |-> "none", result |-> "none", journaled |-> FALSE, valid |-> FALSE,
     wroteHeader |-> FALSE, headerAtStart |-> FALSE]

NoAuthor == [header |-> 0, entries |-> <<>>]

\* A client between calls.  pc is the suspension point of the call in
\* progress; block_operations, next, block_count, header and tb are the locals
\* of write_batch, write_journal and coherently_resolve_journal; the other
\* fields record the call for the properties: the table when it began, whether
\* it took the journaled path, wrote its header, found a header when it began,
\* the TransactWriteItems calls it made and the last of them, the call before
\* it, and what the user keys must be once a crashed journaled batch is
\* cleared: those of the table when the batch began, any journal it then held
\* drained, with all of the batch applied when its header was written.  For
\* the reads: arg is the argument of the call, inflight the GetItem requests
\* sent and not yet answered, nQuery the Query requests sent, truncated whether
\* a Query response ended before the last matching item, out what the call
\* gives back.  id numbers the calls of the client and author records, for the
\* journal this client wrote, the call that wrote the header and the call that
\* wrote each entry; what the table held at the start is of call 0.
IdleClient ==
    [pc |-> "idle", op |-> "none", result |-> "none",
     block_operations |-> EmptyBatch, next |-> 0, block_count |-> 0,
     header |-> 0, tb |-> EmptyBuilder,
     store0 |-> EmptyStore, journaled |-> FALSE, wroteHeader |-> FALSE,
     headerAtStart |-> FALSE, nTransact |-> 0, lastTx |-> NoTx,
     prev |-> NoPrev, expect |-> EmptyStore,
     arg |-> <<>>, inflight |-> 0, nQuery |-> 0, truncated |-> FALSE, out |-> <<>>,
     id |-> 0, author |-> NoAuthor]

Clients == {1}

TxOf(kind, transacts) ==
    [kind |-> kind, count |-> Len(transacts), bytes |-> TransactBytes(transacts, 1, Len(transacts))]

IsJournalKey(k) == StartsWith(k, BaseKey \o <<JOURNAL_TAG>>)

\* The user-visible part of a table.
UserView(st) == [k \in {j \in DOMAIN st : ~IsJournalKey(j)} |-> st[k]]

RECURSIVE InsertionsOf(_, _, _)
\* Insertions lo..hi as a function from key to value.
InsertionsOf(insertions, lo, hi) ==
    IF lo > hi THEN <<>>
    ELSE IF lo = hi THEN insertions[lo][1] :> insertions[lo][2]
    ELSE InsertionsOf(insertions, lo, (lo + hi) \div 2)
         @@ InsertionsOf(insertions, (lo + hi) \div 2 + 1, hi)

\* The table after all of a normalized batch is applied.
ApplyBatch(st, b) ==
    LET delKeys == {b.deletions[n] : n \in 1..Len(b.deletions)}
    IN InsertionsOf(b.insertions, 1, Len(b.insertions))
       @@ [k \in DOMAIN st \ delKeys |-> st[k]]

RECURSIVE ResolveAll(_, _)
\* The table once coherently_resolve_journal, started at block_count and left
\* alone, has ended: with the journal drained, or where an entry is missing or
\* does not build.
ResolveAll(st, block_count) ==
    IF JournalDrained(block_count) THEN st
    ELSE LET value == read_key_bytes(st, EntryKey(BaseKey, block_count - 1))
             tb == ReplayBuilder(BatchFromBytes(value[1]), block_count - 1, BaseKey)
         IN IF value = None \/ tb.err # "Ok" THEN st
            ELSE LET sub == submit(tb, st)
                 IN IF sub.err # "Ok" THEN st
                    ELSE ResolveAll(sub.store, block_count - 1)

\* The table once clear_journal, left alone, has ended.
ClearAll(st) ==
    LET value == read_key_bytes(st, HeaderKey(BaseKey))
    IN IF value = None THEN st ELSE ResolveAll(st, HeaderFromBytes(value[1]))

\* The record of a client as a call begins.
Begin(r, op, st) ==
    [IdleClient EXCEPT
        !.op = op,
        !.store0 = st,
        !.headerAtStart = HeaderKey(BaseKey) \in DOMAIN st,
        !.prev = [op |-> r.op, result |-> r.result, journaled |-> r.journaled,
                  valid |-> ValidBatch(r.block_operations),
                  wroteHeader |-> r.wroteHeader, headerAtStart |-> r.headerAtStart],
        !.expect = r.expect,
        !.id = r.id + 1,
        !.author = r.author]

\* The record of a client as its call returns res.
Return(r, res) == [r EXCEPT !.pc = "idle", !.result = res, !.tb = EmptyBuilder]

\* The record of a client after a submit that returned sub.
Submitted(r, kind, tb, sub) ==
    IF sub.sent
    THEN [r EXCEPT !.nTransact = @ + 1, !.lastTx = TxOf(kind, tb.transacts)]
    ELSE r

(***************************************************************************)
(* Actions                                                                 *)
(***************************************************************************)
Init ==
    /\ store \in {SeedStore, CrashedStore}
    /\ cl = [c \in Clients |-> IdleClient]
    /\ calls = 0
    /\ crashes = 0

\* write_batch is called: from_batch, then the choice of the path.
write_batch(c, batch) ==
    /\ cl[c].pc = "idle"
    /\ LET nb == from_batch(store, batch)
           r == [Begin(cl[c], "write_batch", store) EXCEPT !.arg = batch]
       IN cl' = [cl EXCEPT ![c] =
                    IF nb.err # "Ok" THEN Return(r, nb.err)
                    ELSE [r EXCEPT !.block_operations = nb.batch,
                                   !.journaled = ~is_fastpath_feasible(nb.batch),
                                   !.pc = IF is_fastpath_feasible(nb.batch)
                                          THEN "fastpath" ELSE "write_journal"]]
    /\ calls' = calls + 1
    /\ UNCHANGED <<store, crashes>>

\* At most MaxCalls calls are made.
WriteBatch(c, batch) ==
    /\ calls < MaxCalls
    /\ write_batch(c, batch)

\* write_fastpath_failsafe: one transaction of every delete and every put.
WriteFastpathFailsafe(c) ==
    /\ cl[c].pc = "fastpath"
    /\ LET tb == FastpathBuilder(cl[c].block_operations)
           sub == submit(tb, store)
       IN IF tb.err # "Ok"
          THEN /\ cl' = [cl EXCEPT ![c] = Return(@, tb.err)]
               /\ UNCHANGED store
          ELSE /\ cl' = [cl EXCEPT ![c] = Return(Submitted(@, "fast", tb, sub), sub.err)]
               /\ store' = sub.store
    /\ UNCHANGED <<calls, crashes>>

\* A loop that goes to the header write after its first flush.
WriteJournalFlushOnce(c) ==
    /\ cl[c].pc = "write_journal"
    /\ \E last \in {FlushIndex(cl[c].block_operations, cl[c].next)} :
       LET r == cl[c]
           b == r.block_operations
           value == BatchToBytes(BlockOf(b, r.next, last))
           key == EntryKey(BaseKey, r.block_count)
           tb == insert_put_request(EmptyBuilder, key, value)
           sub == write_single_key_value(store, key, value)
       IN IF sub.err # "Ok"
          THEN /\ cl' = [cl EXCEPT ![c] = Return(Submitted(@, "block", tb, sub), sub.err)]
               /\ store' = sub.store
          ELSE /\ cl' = [cl EXCEPT ![c] =
                            [Submitted(@, "block", tb, sub) EXCEPT
                                !.next = last + 1,
                                !.block_count = r.block_count + 1,
                                !.author = [@ EXCEPT !.entries =
                                               (r.block_count :> r.id) @@ @],
                                !.pc = "write_header"]]
               /\ store' = sub.store
    /\ UNCHANGED <<calls, crashes>>

\* write_journal, from operation next to the flush that ends its block: the
\* block is serialized and written under its entry key.
WriteJournalFlush(c) ==
    /\ cl[c].pc = "write_journal"
    /\ \E last \in {FlushIndex(cl[c].block_operations, cl[c].next)} :
       LET r == cl[c]
           b == r.block_operations
           value == BatchToBytes(BlockOf(b, r.next, last))
           key == EntryKey(BaseKey, r.block_count)
           tb == insert_put_request(EmptyBuilder, key, value)
           sub == write_single_key_value(store, key, value)
       IN IF sub.err # "Ok"
          THEN /\ cl' = [cl EXCEPT ![c] = Return(Submitted(@, "block", tb, sub), sub.err)]
               /\ store' = sub.store
          ELSE /\ cl' = [cl EXCEPT ![c] =
                            [Submitted(@, "block", tb, sub) EXCEPT
                                !.next = last + 1,
                                !.block_count = r.block_count + 1,
                                !.author = [@ EXCEPT !.entries =
                                               (r.block_count :> r.id) @@ @],
                                !.pc = IF last + 1 = BatchLen(b)
                                       THEN "write_header" ELSE "write_journal"]]
               /\ store' = sub.store
    /\ UNCHANGED <<calls, crashes>>

\* write_journal after its loop: the header is written last, and
\* coherently_resolve_journal starts from it.
WriteJournalHeader(c) ==
    /\ cl[c].pc = "write_header"
    /\ LET r == cl[c]
           key == HeaderKey(BaseKey)
           value == HeaderToBytes(r.block_count)
           tb == insert_put_request(EmptyBuilder, key, value)
           sub == write_single_key_value(store, key, value)
       IN IF r.block_count = 0
          THEN /\ cl' = [cl EXCEPT ![c] = Return(@, "Ok")]
               /\ UNCHANGED store
          ELSE IF sub.err # "Ok"
          THEN /\ cl' = [cl EXCEPT ![c] = Return(Submitted(@, "header", tb, sub), sub.err)]
               /\ store' = sub.store
          ELSE /\ cl' = [cl EXCEPT ![c] =
                            [Submitted(@, "header", tb, sub) EXCEPT
                                !.wroteHeader = TRUE,
                                !.author = [@ EXCEPT !.header = r.id],
                                !.header = r.block_count,
                                !.pc = "resolve"]]
               /\ store' = sub.store
    /\ UNCHANGED <<calls, crashes>>

\* A turn of the loop that takes a missing entry for the end of the journal.
ResolveReadLenient(c) ==
    /\ cl[c].pc = "resolve"
    /\ LET r == cl[c]
           pos == r.header - 1
           value == read_key_bytes(store, EntryKey(BaseKey, pos))
           tb == ReplayBuilder(BatchFromBytes(value[1]), pos, BaseKey)
       IN cl' = [cl EXCEPT ![c] =
                    IF value = None THEN Return(r, "Ok")
                    ELSE IF tb.err # "Ok" THEN Return(r, tb.err)
                    ELSE [r EXCEPT !.header = pos, !.tb = tb, !.pc = "resolve_submit"]]
    /\ UNCHANGED <<store, calls, crashes>>

\* A turn of the loop that takes the lowest block first.
ResolveReadLowest(c) ==
    /\ cl[c].pc = "resolve"
    /\ LET r == cl[c]
           pos == 0
           value == read_key_bytes(store, EntryKey(BaseKey, pos))
           tb == ReplayBuilder(BatchFromBytes(value[1]), pos, BaseKey)
       IN cl' = [cl EXCEPT ![c] =
                    IF value = None THEN Return(r, "DatabaseRecoveryFailed")
                    ELSE IF tb.err # "Ok" THEN Return(r, tb.err)
                    ELSE [r EXCEPT !.header = r.header - 1, !.tb = tb,
                                   !.pc = "resolve_submit"]]
    /\ UNCHANGED <<store, calls, crashes>>

\* coherently_resolve_journal, one turn of its loop up to the submit: the
\* entry under block_count - 1 is read and its transaction is built.
ResolveRead(c) ==
    /\ cl[c].pc = "resolve"
    /\ LET r == cl[c]
           pos == r.header - 1
           value == read_key_bytes(store, EntryKey(BaseKey, pos))
           tb == ReplayBuilder(BatchFromBytes(value[1]), pos, BaseKey)
       IN cl' = [cl EXCEPT ![c] =
                    IF value = None THEN Return(r, "DatabaseRecoveryFailed")
                    ELSE IF tb.err # "Ok" THEN Return(r, tb.err)
                    ELSE [r EXCEPT !.header = pos, !.tb = tb, !.pc = "resolve_submit"]]
    /\ UNCHANGED <<store, calls, crashes>>

\* The submit of that transaction, and the loop's test of block_count.
ResolveSubmit(c) ==
    /\ cl[c].pc = "resolve_submit"
    /\ LET r == cl[c]
           sub == submit(r.tb, store)
           done == Submitted(r, "replay", r.tb, sub)
       IN /\ cl' = [cl EXCEPT ![c] =
                       IF sub.err # "Ok" THEN Return(done, sub.err)
                       ELSE IF JournalDrained(r.header) THEN Return(done, "Ok")
                       ELSE [done EXCEPT !.tb = EmptyBuilder, !.pc = "resolve"]]
          /\ store' = sub.store
    /\ UNCHANGED <<calls, crashes>>

\* clear_journal is called: the header is read, and replayed when there is one.
clear_journal(c) ==
    /\ cl[c].pc = "idle"
    /\ LET value == read_key_bytes(store, HeaderKey(BaseKey))
           r == Begin(cl[c], "clear_journal", store)
       IN cl' = [cl EXCEPT ![c] =
                    IF value = None THEN Return(r, "Ok")
                    ELSE IF JournalDrained(HeaderFromBytes(value[1])) THEN Return(r, "Ok")
                    ELSE [r EXCEPT !.header = HeaderFromBytes(value[1]),
                                   !.pc = "resolve"]]
    /\ calls' = calls + 1
    /\ UNCHANGED <<store, crashes>>

\* At most MaxCalls calls are made.
ClearJournal(c) ==
    /\ calls < MaxCalls
    /\ clear_journal(c)

\* The process ends at a suspension point: the locals of the call are lost,
\* the table stays.
Crash(c) ==
    /\ cl[c].pc # "idle"
    /\ crashes < MaxCrashes
    /\ cl' = [cl EXCEPT ![c] =
                 [Return(@, "crashed") EXCEPT
                     !.expect = IF cl[c].op = "write_batch" /\ cl[c].journaled
                                THEN (IF cl[c].wroteHeader
                                      THEN UserView(ApplyBatch(ClearAll(cl[c].store0),
                                                               cl[c].block_operations))
                                      ELSE UserView(ClearAll(cl[c].store0)))
                                ELSE EmptyStore]]
    /\ crashes' = crashes + 1
    /\ UNCHANGED <<store, calls>>

Next ==
    \E c \in Clients :
        \/ \E batch \in Batches : WriteBatch(c, batch)
        \/ WriteFastpathFailsafe(c)
        \/ WriteJournalFlush(c)
        \/ WriteJournalHeader(c)
        \/ ResolveRead(c)
        \/ ResolveSubmit(c)
        \/ ClearJournal(c)
        \/ Crash(c)

Spec == Init /\ [][Next]_vars

(***************************************************************************)
(* A journal that lost an entry                                            *)
(***************************************************************************)
\* The table st without key.
Without(st, key) == [k \in DOMAIN st \ {key} |-> st[k]]

\* CrashedStore after its journal lost an entry (storage corruption, or
\* another process that replayed it): the last one, or the first one.
CorruptStores ==
    {Without(CrashedStore, EntryKey(BaseKey, 1)), Without(CrashedStore, EntryKey(BaseKey, 0))}

CorruptInit ==
    /\ store \in CorruptStores
    /\ cl = [c \in Clients |-> IdleClient]
    /\ calls = 0
    /\ crashes = 0

\* The calls of Spec on a region whose journal lost an entry.
CorruptSpec == CorruptInit /\ [][Next]_vars

(***************************************************************************)
(* Reads                                                                   *)
(***************************************************************************)
\* The table after write_batch(BatchFastHeavy) on SeedStore.
HeavyStore ==
    submit(FastpathBuilder(from_batch(SeedStore, BatchFastHeavy).batch), SeedStore).store

ReadStores == {SeedStore, CrashedStore, HeavyStore}

\* A key that is present and one that is not.
KeysFew == <<UKey(1, 1), UKey(3, 1)>>

\* One key more than MAX_CONNECTIONS.
KeysMany == [n \in 1..(MAX_CONNECTIONS + 1) |-> UKey(1, n)]

KeyLists == {<<>>, KeysFew, KeysMany}

Prefixes == {<<>>, BaseKey, BaseKey \o <<1>>, BaseKey \o <<3>>}

\* read_multi_key_bytes is called: a GetItem future per key, all handed to
\* join_all, whose first poll polls each of them: every request is sent.
ReadMultiKeyBytes(c, keys) ==
    /\ cl[c].pc = "idle"
    /\ calls < MaxCalls
    /\ cl' = [cl EXCEPT ![c] =
                 [Begin(@, "read_multi_key_bytes", store) EXCEPT
                     !.arg = keys, !.inflight = Len(keys), !.pc = "join_all"]]
    /\ calls' = calls + 1
    /\ UNCHANGED <<store, crashes>>

\* The requests of read_multi_key_bytes of client c that are not yet answered:
\* out holds the value of every answered one under its index.
Unanswered(c) == (1..Len(cl[c].arg)) \ DOMAIN cl[c].out

\* The response of request n, one of those in flight, arrives: the value of
\* its key is the one the table holds now.
GetItemResponse(c, n) ==
    /\ cl[c].pc = "join_all"
    /\ n \in Unanswered(c)
    /\ cl' = [cl EXCEPT ![c] =
                 [@ EXCEPT !.inflight = @ - 1,
                           !.out = (n :> read_key_bytes(store, cl[c].arg[n])) @@ @]]
    /\ UNCHANGED <<store, calls, crashes>>

\* join_all is ready: the values, each as its response gave it, in the order
\* of the keys.
ReadMultiReturn(c) ==
    /\ cl[c].pc = "join_all"
    /\ cl[c].inflight = 0
    /\ cl' = [cl EXCEPT ![c] =
                 Return([@ EXCEPT !.out = [n \in 1..Len(cl[c].arg) |-> cl[c].out[n]]],
                        "Ok")]
    /\ UNCHANGED <<store, calls, crashes>>

\* The responses may come in any order; here a response overtakes at most
\* MaxOvertaking requests sent before it that are still unanswered.
MaxOvertaking == 1

NextResponses(c) ==
    {n \in Unanswered(c) :
        Cardinality({m \in Unanswered(c) : m < n}) <= MaxOvertaking}

\* find_keys_by_prefix, from the call to its return.
FindKeysByPrefix(c, key_prefix) ==
    /\ cl[c].pc = "idle"
    /\ calls < MaxCalls
    /\ LET r == find_keys_by_prefix(store, key_prefix)
       IN cl' = [cl EXCEPT ![c] =
                    Return([Begin(@, "find_keys_by_prefix", store) EXCEPT
                               !.arg = key_prefix, !.nQuery = r.queries,
                               !.truncated = r.truncated, !.out = r.list],
                           r.err)]
    /\ calls' = calls + 1
    /\ UNCHANGED <<store, crashes>>

\* find_key_values_by_prefix, from the call to its return.
FindKeyValuesByPrefix(c, key_prefix) ==
    /\ cl[c].pc = "idle"
    /\ calls < MaxCalls
    /\ LET r == find_key_values_by_prefix(store, key_prefix)
       IN cl' = [cl EXCEPT ![c] =
                    Return([Begin(@, "find_key_values_by_prefix", store) EXCEPT
                               !.arg = key_prefix, !.nQuery = r.queries,
                               !.truncated = r.truncated, !.out = r.list],
                           r.err)]
    /\ calls' = calls + 1
    /\ UNCHANGED <<store, crashes>>

ReadInit ==
    /\ store \in ReadStores
    /\ cl = [c \in Clients |-> IdleClient]
    /\ calls = 0
    /\ crashes = 0

ReadNext ==
    \E c \in Clients :
        \/ \E keys \in KeyLists : ReadMultiKeyBytes(c, keys)
        \/ \E n \in NextResponses(c) : GetItemResponse(c, n)
        \/ ReadMultiReturn(c)
        \/ \E key_prefix \in Prefixes : FindKeysByPrefix(c, key_prefix)
        \/ \E key_prefix \in Prefixes : FindKeyValuesByPrefix(c, key_prefix)

\* The reads alone, on the tables the writes leave.
ReadSpec == ReadInit /\ [][ReadNext]_vars

(***************************************************************************)
(* Short batches                                                           *)
(***************************************************************************)
\* The most calls of write_batch with a short batch.
MaxNormCalls == 1

\* write_batch is called with a short batch.
NormWriteBatch(c, batch) ==
    /\ calls < MaxNormCalls
    /\ WriteBatch(c, batch)

NormInit ==
    /\ store \in ReadStores
    /\ cl = [c \in Clients |-> IdleClient]
    /\ calls = 0
    /\ crashes = 0

NormNext ==
    \E c \in Clients :
        \/ \E batch \in SmallBatches : NormWriteBatch(c, batch)
        \/ WriteFastpathFailsafe(c)

\* write_batch of every short batch, on the tables the writes leave.
NormSpec == NormInit /\ [][NormNext]_vars

(***************************************************************************)
(* Two writers on one base_key                                             *)
(***************************************************************************)
\* Two clients of the same table and base_key.
Writers == {1, 2}

\* What the two writers write: a fast-path batch, and journaled batches of two
\* and of three blocks.
ConcBatches == {BatchSmall, BatchJournal, BatchJournalMixed}

\* A writer calls write_batch, once.
ConcWriteBatch(c, batch) ==
    /\ cl[c].op = "none"
    /\ WriteBatch(c, batch)

ConcInit ==
    /\ store = SeedStore
    /\ cl = [c \in Writers |-> IdleClient]
    /\ calls = 0
    /\ crashes = 0

\* The suspension points of write_batch are those of the journaled path: the
\* steps of the two writers interleave there.
ConcNext ==
    \E c \in Writers :
        \/ \E batch \in ConcBatches : ConcWriteBatch(c, batch)
        \/ WriteFastpathFailsafe(c)
        \/ WriteJournalFlush(c)
        \/ WriteJournalHeader(c)
        \/ ResolveRead(c)
        \/ ResolveSubmit(c)

ConcSpec == ConcInit /\ [][ConcNext]_vars

(***************************************************************************)
(* One writer that calls clear_journal before each write_batch             *)
(***************************************************************************)
MaxDisciplinedCalls == 5

\* A fast-path batch, journaled batches of two and of three blocks, and the
\* journaled batch with a put under the empty key.
DisciplinedBatches ==
    {BatchSmall, BatchJournal, BatchJournalMixed, BatchJournalEmptyKey}

\* write_batch, called only when the call before it was a clear_journal that
\* returned.
DisciplinedWriteBatch(c, batch) ==
    /\ calls < MaxDisciplinedCalls
    /\ cl[c].op = "clear_journal"
    /\ cl[c].result # "crashed"
    /\ write_batch(c, batch)

DisciplinedClearJournal(c) ==
    /\ calls < MaxDisciplinedCalls
    /\ clear_journal(c)

DisciplinedInit ==
    /\ store = SeedStore
    /\ cl = [c \in Clients |-> IdleClient]
    /\ calls = 0
    /\ crashes = 0

DisciplinedNext ==
    \E c \in Clients :
        \/ \E batch \in DisciplinedBatches : DisciplinedWriteBatch(c, batch)
        \/ DisciplinedClearJournal(c)
        \/ WriteFastpathFailsafe(c)
        \/ WriteJournalFlush(c)
        \/ WriteJournalHeader(c)
        \/ ResolveRead(c)
        \/ ResolveSubmit(c)
        \/ Crash(c)

DisciplinedSpec == DisciplinedInit /\ [][DisciplinedNext]_vars

(***************************************************************************)
(* get_journaling_key alone                                                *)
(***************************************************************************)
\* Base keys of zero to seven bytes; the last is the key get_journaling_key
\* gives entry 0 of the region <<16>>, and <<16, 0>> and <<16, 0, 2>> are
\* beginnings of it.
KeyBases == {<<>>, <<16>>, <<16, 0>>, <<16, 0, 2>>, <<17>>, <<16, 0, 2, 0, 0, 0, 0>>}

\* The two tags of KeyTag and the other ends of u8.
KeyTags == {KeyTagJournal, KeyTagEntry, 0, 255}

\* Values of u32 that differ in one byte each, and 2^31 - 1, whose four bytes
\* are all set.
KeyPositions == {0, 1, 256, 2147483647}

KeyCallers == {1, 2}

\* Two calls of get_journaling_key are about to be made, each with its
\* arguments.
KeyInit ==
    /\ store = SeedStore
    /\ \E base \in [KeyCallers -> KeyBases], tag \in [KeyCallers -> KeyTags],
          pos \in [KeyCallers -> KeyPositions] :
           cl = [c \in KeyCallers |->
                    [IdleClient EXCEPT !.pc = "key", !.op = "get_journaling_key",
                                       !.arg = <<base[c], tag[c], pos[c]>>]]
    /\ calls = 0
    /\ crashes = 0

\* get_journaling_key, from the call to its return.
GetJournalingKey(c) ==
    /\ cl[c].pc = "key"
    /\ cl' = [cl EXCEPT ![c] =
                 [Return(@, "Ok") EXCEPT
                     !.out = get_journaling_key(cl[c].arg[1], cl[c].arg[2], cl[c].arg[3])]]
    /\ UNCHANGED <<store, calls, crashes>>

KeyNext == \E c \in KeyCallers : GetJournalingKey(c)

KeySpec == KeyInit /\ [][KeyNext]_vars

(***************************************************************************)
(* TransactionBuilder::submit alone                                        *)
(***************************************************************************)
\* The builder after d deletes of keys UKey(1, _) and p puts of keys UKey(2, _).
BuilderOf(d, p) ==
    InsertBatch(EmptyBuilder,
                [deletions |-> [n \in 1..d |-> UKey(1, n)],
                 insertions |-> [n \in 1..p |-> <<UKey(2, n), RawValue(13, 1)>>]])

\* The numbers of deletes and of puts pushed: their sums lie on both sides of
\* MAX_TRANSACT_WRITE_ITEM_SIZE.
SubmitCounts == {0, 1, 50, 51, 100, 101}

\* The builders handed to submit: of 0 to 202 operations on different keys,
\* and some that name the same keys twice, which the service refuses.
SubmitInputs ==
    {BuilderOf(d, p) : d \in SubmitCounts, p \in SubmitCounts}
    \cup {Then(BuilderOf(d, p), BuilderOf(d, p)) : d \in {0, 1, 50}, p \in {1, 50}}

\* A builder is full and submit is about to be called on it.
SubmitInit ==
    /\ store \in {SeedStore, CrashedStore}
    /\ \E tb \in SubmitInputs :
           cl = [c \in Clients |->
                    [IdleClient EXCEPT !.pc = "submit", !.op = "submit", !.tb = tb,
                                       !.arg = tb.transacts, !.store0 = store]]
    /\ calls = 0
    /\ crashes = 0

\* submit, from the call to its return.
Submit(c) ==
    /\ cl[c].pc = "submit"
    /\ LET sub == submit(cl[c].tb, store)
       IN /\ cl' = [cl EXCEPT ![c] = Return(Submitted(@, "submit", cl[c].tb, sub), sub.err)]
          /\ store' = sub.store
    /\ UNCHANGED <<calls, crashes>>

SubmitNext == \E c \in Clients : Submit(c)

SubmitSpec == SubmitInit /\ [][SubmitNext]_vars

(***************************************************************************)
(* Properties                                                              *)
(***************************************************************************)
ValidationErrors == {"ZeroLengthKey", "ValueLengthTooLarge"}

\* The call op of client c has returned (the process did not end in it).
Returned(c, op) ==
    cl[c].pc = "idle" /\ cl[c].op = op /\ cl[c].result # "crashed"

\* clear_journal of client c returned Ok right after a journaled write_batch,
\* of non-empty keys and values of at most MAX_VALUE_BYTES, in which the
\* process ended.
ClearedAfterCrash(c) ==
    /\ Returned(c, "clear_journal")
    /\ cl[c].result = "Ok"
    /\ cl[c].prev.op = "write_batch"
    /\ cl[c].prev.result = "crashed"
    /\ cl[c].prev.journaled
    /\ cl[c].prev.valid

\* C1: after the process ends in a journaled write_batch(B) and clear_journal
\* then returns Ok, the user keys are as before B when the header of B had not
\* been written, and as after all of B when it had (a journal the region held
\* when B began counts as drained before B).
CrashRecovery ==
    \A c \in Clients : ClearedAfterCrash(c) => UserView(store) = cl[c].expect

\* The same for a batch B that began on a region without a journal header.
CrashRecoveryCleanStart ==
    \A c \in Clients :
        ClearedAfterCrash(c) /\ ~cl[c].prev.headerAtStart
            => UserView(store) = cl[c].expect

\* C2: once write_batch has returned Ok, on either path, every insertion of the
\* normalized batch reads back its value and every deletion reads as absent.
BatchAtomicity ==
    \A c \in Clients :
        Returned(c, "write_batch") /\ cl[c].result = "Ok" =>
            LET b == cl[c].block_operations
            IN /\ \A n \in 1..Len(b.insertions) :
                     read_key_bytes(store, b.insertions[n][1]) = Some(b.insertions[n][2])
               /\ \A n \in 1..Len(b.deletions) :
                     read_key_bytes(store, b.deletions[n]) = None

\* A journaled write_batch of deletions and insertions has returned Ok.
BatchAtomicityWitness ==
    \E c \in Clients :
        /\ Returned(c, "write_batch") /\ cl[c].result = "Ok"
        /\ cl[c].journaled
        /\ cl[c].block_operations.deletions # <<>>
        /\ cl[c].block_operations.insertions # <<>>

\* C3: once a journaled write_batch has returned Ok, the table holds no key
\* under base_key ++ JOURNAL_TAG: no header and no block entry.
JournalDestroyed ==
    \A c \in Clients :
        Returned(c, "write_batch") /\ cl[c].result = "Ok" /\ cl[c].journaled =>
            \A k \in DOMAIN store : ~IsJournalKey(k)

\* C4: a write_batch that ends with ZeroLengthKey or ValueLengthTooLarge has
\* submitted no transaction to the table.
ValidationBeforeBackend ==
    \A c \in Clients :
        cl[c].op = "write_batch" /\ cl[c].result \in ValidationErrors =>
            cl[c].nTransact = 0

\* C5: a write_batch that ends with ZeroLengthKey or ValueLengthTooLarge has
\* changed no user key and leaves no journal header it wrote.
ValidationAborts ==
    \A c \in Clients :
        Returned(c, "write_batch") /\ cl[c].result \in ValidationErrors =>
            /\ UserView(store) = UserView(cl[c].store0)
            /\ ~(cl[c].wroteHeader /\ HeaderKey(BaseKey) \in DOMAIN store)

\* C6: a journaled write_batch of non-empty keys and values of at most
\* MAX_VALUE_BYTES returns Ok.
ArbitrarySizeAccepted ==
    \A c \in Clients :
        /\ Returned(c, "write_batch")
        /\ cl[c].journaled
        /\ ValidBatch(cl[c].block_operations)
        => cl[c].result = "Ok"

\* C7: no transaction sent carries more than MAX_TRANSACT_WRITE_ITEM_SIZE
\* operations: a block or header write carries one, a replay the entry delete,
\* the block and the header operation; and no call ends with
\* TransactUpperLimitSize.
OpCountCeiling ==
    \A c \in Clients :
        /\ cl[c].result # "TransactUpperLimitSize"
        /\ cl[c].lastTx.count <= MAX_TRANSACT_WRITE_ITEM_SIZE
        /\ cl[c].lastTx.kind \in {"block", "header"} => cl[c].lastTx.count = 1
        /\ cl[c].lastTx.kind = "replay" => cl[c].lastTx.count >= 2

\* A replay transaction of exactly MAX_TRANSACT_WRITE_ITEM_SIZE operations
\* has been sent.
OpCountCeilingWitness ==
    \E c \in Clients :
        /\ cl[c].lastTx.kind = "replay"
        /\ cl[c].lastTx.count = MAX_TRANSACT_WRITE_ITEM_SIZE

\* C8: no transaction sent carries more than MAX_BATCH_WRITE_ITEM_BYTES bytes
\* of keys and values.
ByteCeiling ==
    \A c \in Clients : cl[c].lastTx.bytes <= MAX_BATCH_WRITE_ITEM_BYTES

\* C9: clear_journal on a region without a header sends no transaction and
\* leaves the table as it was; and a clear_journal right after one that
\* returned Ok does the same and returns Ok.
IdempotentRecovery ==
    \A c \in Clients :
        /\ cl[c].op = "clear_journal" /\ ~cl[c].headerAtStart =>
              cl[c].nTransact = 0 /\ store = cl[c].store0
        /\ Returned(c, "clear_journal")
           /\ cl[c].prev.op = "clear_journal" /\ cl[c].prev.result = "Ok" =>
              cl[c].nTransact = 0 /\ store = cl[c].store0 /\ cl[c].result = "Ok"

\* clear_journal has returned right after a clear_journal that drained a
\* journal.
IdempotentRecoveryWitness ==
    \E c \in Clients :
        /\ Returned(c, "clear_journal")
        /\ cl[c].prev.op = "clear_journal" /\ cl[c].prev.result = "Ok"
        /\ cl[c].prev.headerAtStart

\* C10: a write_batch sends a transaction only on a region that had no journal
\* header when the call began.
DrainedBeforeWrite ==
    \A c \in Clients :
        cl[c].op = "write_batch" /\ cl[c].nTransact > 0 => ~cl[c].headerAtStart

\* C11: read_multi_key_bytes never has more than MAX_CONNECTIONS GetItem
\* requests in flight.
ConnectionCap ==
    \A c \in Clients : cl[c].inflight <= MAX_CONNECTIONS

\* The keys of the journal of the region that a table holds, with their values.
JournalView(st) == [k \in {j \in DOMAIN st : IsJournalKey(j)} |-> st[k]]

\* The choice of the path by write_batch of client c: the fast path exactly
\* when the normalized batch has at most MAX_TRANSACT_WRITE_ITEM_SIZE
\* operations, and coherently_resolve_journal only after write_journal wrote
\* its header.
PathChosen(c) ==
    LET r == cl[c]
        few == BatchLen(r.block_operations) <= MAX_TRANSACT_WRITE_ITEM_SIZE
    IN /\ r.journaled = ~few
       /\ r.pc = "fastpath" => few
       /\ r.pc \in {"write_journal", "write_header", "resolve", "resolve_submit"} => ~few
       /\ r.pc \in {"resolve", "resolve_submit"} => r.wroteHeader

\* The fast path of client c has sent one transaction of every operation of
\* the batch, none for an empty batch, and has left the journal as it was.
OneTransaction(c) ==
    LET r == cl[c]
        len == BatchLen(r.block_operations)
    IN /\ r.nTransact = (IF len = 0 THEN 0 ELSE 1)
       /\ len > 0 => r.lastTx.kind = "fast" /\ r.lastTx.count = len
       /\ JournalView(store) = JournalView(r.store0)

\* C12 as stated: the path is chosen by the number of operations, and every
\* write_batch that returns from the fast path has sent exactly one
\* transaction of every delete and every put (none when the batch is empty)
\* and written no journal key.
PathSelectionAlways ==
    \A c \in Clients :
        cl[c].op = "write_batch" =>
            /\ PathChosen(c)
            /\ Returned(c, "write_batch") /\ ~cl[c].journaled => OneTransaction(c)

\* C12: the path is chosen by the number of operations; a write_batch that
\* returns from the fast path has sent exactly one transaction of every delete
\* and every put (none when the batch is empty) when every key is non-empty
\* and every value at most MAX_VALUE_BYTES, and otherwise none, returning
\* ZeroLengthKey or ValueLengthTooLarge; in both cases it has written no
\* journal key.
PathSelection ==
    \A c \in Clients :
        cl[c].op = "write_batch" =>
            /\ PathChosen(c)
            /\ Returned(c, "write_batch") /\ ~cl[c].journaled =>
                  IF ValidBatch(cl[c].block_operations)
                  THEN OneTransaction(c)
                  ELSE /\ cl[c].nTransact = 0
                       /\ cl[c].result \in ValidationErrors
                       /\ store = cl[c].store0

\* A write_batch of exactly MAX_TRANSACT_WRITE_ITEM_SIZE operations has
\* returned Ok from the fast path.
PathSelectionWitness ==
    \E c \in Clients :
        /\ Returned(c, "write_batch") /\ cl[c].result = "Ok"
        /\ ~cl[c].journaled
        /\ BatchLen(cl[c].block_operations) = MAX_TRANSACT_WRITE_ITEM_SIZE
        /\ cl[c].nTransact = 1

\* C13: a turn of the replay loop ends with DatabaseRecoveryFailed exactly when
\* the entry under block_count - 1 of the header (block_count > 0) is missing;
\* that turn sends no transaction and leaves the table, header and entries,
\* as it was; and nothing else gives DatabaseRecoveryFailed.
RecoveryFailedExactly ==
    [][\A c \in Clients :
          LET missing == EntryKey(BaseKey, cl[c].header - 1) \notin DOMAIN store
              failed == cl'[c].result = "DatabaseRecoveryFailed"
          IN /\ cl[c].pc = "resolve" /\ cl'[c] # cl[c] /\ cl'[c].result # "crashed" =>
                   /\ cl[c].header > 0
                   /\ read_key_bytes(store, HeaderKey(BaseKey)) =
                          Some(HeaderToBytes(cl[c].header))
                   /\ failed <=> missing
                   /\ failed => /\ store' = store
                                /\ cl'[c].nTransact = cl[c].nTransact
                                /\ cl'[c].pc = "idle"
             /\ failed /\ cl[c].result # "DatabaseRecoveryFailed" => cl[c].pc = "resolve"
      ]_vars

\* clear_journal has replayed one entry and then ended with
\* DatabaseRecoveryFailed, the header still in the table.
RecoveryFailedWitness ==
    \E c \in Clients :
        /\ Returned(c, "clear_journal")
        /\ cl[c].result = "DatabaseRecoveryFailed"
        /\ cl[c].nTransact = 1
        /\ read_key_bytes(store, HeaderKey(BaseKey)) = Some(HeaderToBytes(1))

\* Operation o of a user batch names key k: a put or delete of k, or a prefix
\* delete of a prefix of k.
Touches(o, k) == IF o.op = "DeletePrefix" THEN StartsWith(k, o.key) ELSE o.key = k

\* C14: after write_batch returned Ok for a batch with delete_prefix(p) and a
\* later put of a key under p, every key under p of the table before the call
\* that the batch does not put after the prefix delete is absent, the key put
\* holds the value put (when no later operation names it), and every key
\* outside p that the batch does not name is as before the call.
PrefixDeleteThenPut ==
    \A c \in Clients :
        Returned(c, "write_batch") /\ cl[c].result = "Ok" =>
            \A i \in DOMAIN cl[c].arg : \A j \in DOMAIN cl[c].arg :
                LET B == cl[c].arg
                    st0 == cl[c].store0
                IN (i < j /\ B[i].op = "DeletePrefix" /\ B[j].op = "Put"
                          /\ StartsWith(B[j].key, B[i].key)) =>
                       /\ \A k \in DOMAIN st0 :
                              (/\ StartsWith(k, B[i].key)
                               /\ \A m \in (i + 1)..Len(B) :
                                      ~(B[m].op = "Put" /\ B[m].key = k))
                                  => k \notin DOMAIN store
                       /\ (\A m \in (j + 1)..Len(B) : ~Touches(B[m], B[j].key))
                              => /\ B[j].key \in DOMAIN store
                                 /\ store[B[j].key] = B[j].value
                       /\ \A k \in DOMAIN st0 :
                              (/\ ~StartsWith(k, B[i].key)
                               /\ \A m \in DOMAIN B : ~Touches(B[m], k))
                                  => k \in DOMAIN store /\ store[k] = st0[k]

\* C15: in the normalized batch of a write_batch no key is both deleted and
\* inserted, and a key whose last operation in the user batch is a put or a
\* delete that no later operation names has the effect of that operation: a put
\* is the single insertion of the key, with its value, and not a deletion; a
\* delete is a deletion and not an insertion; once write_batch returned Ok the
\* key holds the value put, respectively is absent.
LastWriterWins ==
    \A c \in Clients :
        cl[c].op = "write_batch" /\ (cl[c].pc # "idle" \/ cl[c].result = "Ok") =>
            LET B == cl[c].arg
                b == cl[c].block_operations
                dels == {b.deletions[i] : i \in DOMAIN b.deletions}
                puts == {b.insertions[i][1] : i \in DOMAIN b.insertions}
                done == Returned(c, "write_batch") /\ cl[c].result = "Ok"
            IN /\ dels \cap puts = {}
               /\ \A n \in DOMAIN B :
                      (/\ B[n].op # "DeletePrefix"
                       /\ \A m \in (n + 1)..Len(B) : ~Touches(B[m], B[n].key)) =>
                          IF B[n].op = "Put"
                          THEN /\ Cardinality({i \in DOMAIN b.insertions :
                                                   b.insertions[i][1] = B[n].key}) = 1
                               /\ \E i \in DOMAIN b.insertions :
                                      b.insertions[i] = <<B[n].key, B[n].value>>
                               /\ B[n].key \notin dels
                               /\ done => /\ B[n].key \in DOMAIN store
                                          /\ store[B[n].key] = B[n].value
                          ELSE /\ B[n].key \in dels
                               /\ B[n].key \notin puts
                               /\ done => B[n].key \notin DOMAIN store

\* write_batch returned Ok for a batch that puts a key the table held and then
\* deletes it: the key is gone.
LastWriterWinsWitness ==
    \E c \in Clients :
        /\ Returned(c, "write_batch") /\ cl[c].result = "Ok"
        /\ \E i \in DOMAIN cl[c].arg : \E j \in DOMAIN cl[c].arg :
               /\ i < j
               /\ cl[c].arg[i].op = "Put" /\ cl[c].arg[j].op = "Delete"
               /\ cl[c].arg[i].key = cl[c].arg[j].key
               /\ cl[c].arg[i].key \in DOMAIN cl[c].store0
               /\ cl[c].arg[i].key \notin DOMAIN store

\* C16: find_keys_by_prefix that returned Ok gave, once each, exactly the keys
\* of the table at the call that start with the prefix, each without the
\* prefix.
PrefixScanComplete ==
    \A c \in Clients :
        Returned(c, "find_keys_by_prefix") /\ cl[c].result = "Ok" =>
            LET present == {k \in DOMAIN cl[c].store0 : StartsWith(k, cl[c].arg)}
            IN /\ {cl[c].out[n] : n \in DOMAIN cl[c].out}
                    = {extract_key(Len(cl[c].arg), k) : k \in present}
               /\ Len(cl[c].out) = Cardinality(present)

\* C17: find_keys_by_prefix and find_key_values_by_prefix of the empty prefix
\* return ZeroLengthKeyPrefix and have sent no Query; of any other prefix they
\* have sent exactly one Query.
PrefixRequired ==
    \A c \in Clients :
        (/\ cl[c].pc = "idle"
         /\ cl[c].op \in {"find_keys_by_prefix", "find_key_values_by_prefix"}) =>
            IF cl[c].arg = <<>>
            THEN cl[c].result = "ZeroLengthKeyPrefix" /\ cl[c].nQuery = 0
            ELSE cl[c].result = "Ok" /\ cl[c].nQuery = 1

\* find_keys_by_prefix of the empty prefix has returned ZeroLengthKeyPrefix
\* on a table that holds keys, without a Query.
PrefixRequiredWitness ==
    \E c \in Clients :
        /\ Returned(c, "find_keys_by_prefix")
        /\ cl[c].arg = <<>>
        /\ cl[c].result = "ZeroLengthKeyPrefix"
        /\ cl[c].nQuery = 0
        /\ DOMAIN cl[c].store0 # {}

\* The block count of the header in the table.
StoredHeader == HeaderFromBytes(store[HeaderKey(BaseKey)])

\* C18: with one writer, and the process ending at any suspension point, in
\* every state of the table a header of block count N has the entries 0..N-1,
\* and the replay of what the table holds, run alone, ends with no header; and
\* no call ends with DatabaseRecoveryFailed.
HeaderInvariant ==
    /\ HeaderKey(BaseKey) \in DOMAIN store =>
          /\ \A n \in 0..(StoredHeader - 1) : EntryKey(BaseKey, n) \in DOMAIN store
          /\ HeaderKey(BaseKey) \notin DOMAIN ClearAll(store)
    /\ \A c \in Clients : cl[c].result # "DatabaseRecoveryFailed"

\* C19: in every state of the table, when the header is absent no entry of
\* the journal exists.
NoHeaderNoEntry ==
    HeaderKey(BaseKey) \notin DOMAIN store =>
        \A k \in DOMAIN store : ~IsJournalKey(k)

\* C20: while a journaled write_batch has not written its header, the user
\* keys and the header of the table are as they were at the call; and the step
\* that writes the header is taken when every operation of the batch is in a
\* block, the entries 0..block_count-1 are in the table, each written by a
\* transaction of its own that has ended, and it puts the header of
\* block_count and nothing else.
CommitPoint ==
    /\ [](\A c \in Clients :
              (cl[c].op = "write_batch" /\ cl[c].journaled /\ ~cl[c].wroteHeader) =>
                  /\ UserView(store) = UserView(cl[c].store0)
                  /\ read_key_bytes(store, HeaderKey(BaseKey))
                         = read_key_bytes(cl[c].store0, HeaderKey(BaseKey)))
    /\ [][\A c \in Clients :
              (~cl[c].wroteHeader /\ cl'[c].wroteHeader) =>
                  /\ cl[c].op = "write_batch" /\ cl[c].journaled
                  /\ cl[c].next = BatchLen(cl[c].block_operations)
                  /\ cl[c].block_count > 0
                  /\ cl[c].nTransact = cl[c].block_count
                  /\ \A n \in 0..(cl[c].block_count - 1) :
                         EntryKey(BaseKey, n) \in DOMAIN store
                  /\ store' = [k \in DOMAIN store \cup {HeaderKey(BaseKey)} |->
                                  IF k = HeaderKey(BaseKey)
                                  THEN HeaderToBytes(cl[c].block_count)
                                  ELSE store[k]]]_vars

\* A write_batch of more than one block has just written its header: the
\* entries are in the table and no user key has changed yet.
CommitPointWitness ==
    \E c \in Clients :
        /\ cl[c].pc = "resolve" /\ cl[c].op = "write_batch"
        /\ cl[c].wroteHeader
        /\ cl[c].block_count > 1
        /\ cl[c].nTransact = cl[c].block_count + 1
        /\ cl[c].header = cl[c].block_count
        /\ read_key_bytes(store, HeaderKey(BaseKey)) = Some(HeaderToBytes(cl[c].block_count))
        /\ UserView(store) = UserView(cl[c].store0)

\* The table after the replay step of entry i commits: the entry is gone, its
\* deletes and puts are applied, and the header counts i blocks, or is gone
\* at 0.
ReplayStepResult(st, i) ==
    LET entry == BatchFromBytes(st[EntryKey(BaseKey, i)])
        applied == ApplyBatch(Without(st, EntryKey(BaseKey, i)), entry)
    IN IF i > 0
       THEN (HeaderKey(BaseKey) :> HeaderToBytes(i)) @@ applied
       ELSE Without(applied, HeaderKey(BaseKey))

\* C21: a turn of coherently_resolve_journal changes the table by its one
\* transaction only: the read of the entry changes nothing, and the submit
\* either commits one transaction of the entry's delete, its deletes and puts
\* and the header operation, after which the table is ReplayStepResult, or the
\* call ends (an error, or the process ends) with the table as it was.
AtomicReplayStep ==
    [][\A c \in Clients :
          /\ cl[c].pc = "resolve" =>
                /\ store' = store
                /\ cl'[c].nTransact = cl[c].nTransact
          /\ cl[c].pc = "resolve_submit" =>
                \/ /\ store' = ReplayStepResult(store, cl[c].header)
                   /\ cl'[c].nTransact = cl[c].nTransact + 1
                   /\ cl'[c].lastTx.count
                          = BatchLen(BatchFromBytes(store[EntryKey(BaseKey, cl[c].header)])) + 2
                   /\ cl'[c].result # "crashed"
                \/ /\ store' = store
                   /\ cl'[c].pc = "idle"
                   /\ cl'[c].result # "Ok"]_vars

\* clear_journal has committed a replay step and goes on: the header in the
\* table counts the blocks left, and the entry replayed is gone.
AtomicReplayStepWitness ==
    \E c \in Clients :
        /\ cl[c].op = "clear_journal" /\ cl[c].pc = "resolve"
        /\ cl[c].nTransact = 1
        /\ cl[c].header > 0
        /\ read_key_bytes(store, HeaderKey(BaseKey)) = Some(HeaderToBytes(cl[c].header))
        /\ EntryKey(BaseKey, cl[c].header) \notin DOMAIN store
        /\ EntryKey(BaseKey, cl[c].header) \in DOMAIN cl[c].store0

\* The block count of the header the replay of client c started from.
ReplayStart(c) ==
    IF cl[c].op = "write_batch" THEN cl[c].block_count
    ELSE HeaderFromBytes(cl[c].store0[HeaderKey(BaseKey)])

\* The header of the table counts n blocks (0: there is no header).
HeaderCounts(st, n) ==
    IF n = 0 THEN HeaderKey(BaseKey) \notin DOMAIN st
    ELSE read_key_bytes(st, HeaderKey(BaseKey)) = Some(HeaderToBytes(n))

\* C22: while a replay that started from a header of N blocks runs, the header
\* of the table counts h blocks, the blocks 0..h-1 are in the table and the
\* blocks h..N-1 are not; the step that commits applies block h-1 and leaves a
\* header of h-1 blocks, none at 0, and the blocks 0..h-2; and no other step
\* of the replay changes the header.
ReverseOrderDrain ==
    /\ [](\A c \in Clients :
              cl[c].pc \in {"resolve", "resolve_submit"} =>
                  LET h == IF cl[c].pc = "resolve" THEN cl[c].header ELSE cl[c].header + 1
                  IN /\ h > 0 /\ h <= ReplayStart(c)
                     /\ HeaderCounts(store, h)
                     /\ \A n \in 0..(ReplayStart(c) - 1) :
                            EntryKey(BaseKey, n) \in DOMAIN store <=> n < h)
    /\ [][\A c \in Clients :
              cl[c].pc \in {"resolve", "resolve_submit"} =>
                  \/ /\ read_key_bytes(store', HeaderKey(BaseKey))
                            = read_key_bytes(store, HeaderKey(BaseKey))
                     /\ \A n \in 0..(ReplayStart(c) - 1) :
                            EntryKey(BaseKey, n) \in DOMAIN store'
                                <=> EntryKey(BaseKey, n) \in DOMAIN store
                  \/ /\ cl[c].pc = "resolve_submit"
                     /\ HeaderCounts(store, cl[c].header + 1)
                     /\ HeaderCounts(store', cl[c].header)
                     /\ EntryKey(BaseKey, cl[c].header) \notin DOMAIN store'
                     /\ \A n \in 0..(cl[c].header - 1) :
                            /\ EntryKey(BaseKey, n) \in DOMAIN store'
                            /\ store'[EntryKey(BaseKey, n)] = store[EntryKey(BaseKey, n)]
                     /\ UserView(store')
                            = UserView(ApplyBatch(store,
                                  BatchFromBytes(store[EntryKey(BaseKey, cl[c].header)])))]_vars

\* The replay of a journal of more than one block has drained block 0 last:
\* clear_journal returned Ok after as many transactions as the header counted
\* at the call, and neither header nor block is left.
ReverseOrderDrainWitness ==
    \E c \in Clients :
        /\ Returned(c, "clear_journal") /\ cl[c].result = "Ok"
        /\ HeaderKey(BaseKey) \in DOMAIN cl[c].store0
        /\ ReplayStart(c) > 1
        /\ cl[c].nTransact = ReplayStart(c)
        /\ HeaderCounts(store, 0)
        /\ \A n \in 0..(ReplayStart(c) - 1) : EntryKey(BaseKey, n) \notin DOMAIN store

\* C23: no header in the table counts 0 blocks; the transaction of the replay
\* step of block 0 deletes the header and does not put it, and that of any
\* other block puts the header of the blocks left.
HeaderNeverZero ==
    /\ HeaderKey(BaseKey) \in DOMAIN store => StoredHeader > 0
    /\ \A c \in Clients :
           cl[c].pc = "resolve_submit" =>
               LET ops == {cl[c].tb.transacts[n] : n \in DOMAIN cl[c].tb.transacts}
                   onHeader == {o \in ops : o.key = HeaderKey(BaseKey)}
               IN IF cl[c].header = 0
                  THEN onHeader = {DeleteItem(HeaderKey(BaseKey))}
                  ELSE onHeader = {PutItem(HeaderKey(BaseKey), HeaderToBytes(cl[c].header))}

\* The replay inside a journaled write_batch is about to submit the
\* transaction of block 0, which deletes the header that is still in the table.
HeaderNeverZeroWitness ==
    \E c \in Clients :
        /\ cl[c].op = "write_batch" /\ cl[c].pc = "resolve_submit"
        /\ cl[c].header = 0
        /\ HeaderCounts(store, 1)
        /\ \E n \in DOMAIN cl[c].tb.transacts :
               cl[c].tb.transacts[n] = DeleteItem(HeaderKey(BaseKey))

\* C24: a clear_journal that found a header of N blocks, whose entries are
\* all in the table, and that ran to its return, returned Ok after exactly N
\* transactions and left no header.
ReplayCompletes ==
    \A c \in Clients :
        (/\ Returned(c, "clear_journal")
         /\ HeaderKey(BaseKey) \in DOMAIN cl[c].store0
         /\ \A n \in 0..(ReplayStart(c) - 1) : EntryKey(BaseKey, n) \in DOMAIN cl[c].store0) =>
            /\ cl[c].result = "Ok"
            /\ cl[c].nTransact = ReplayStart(c)
            /\ HeaderCounts(store, 0)

\* deletions ++ insertions of a batch, as one sequence of operations.
OpsOf(b) ==
    [n \in 1..BatchLen(b) |->
        IF n <= Len(b.deletions)
        THEN <<"delete", b.deletions[n]>>
        ELSE <<"put", b.insertions[n - Len(b.deletions)]>>]

RECURSIVE JournalOps(_, _)
\* The operations of the entries 0..n-1 of the table, in the order of the index.
JournalOps(st, n) ==
    IF n = 0 THEN <<>>
    ELSE JournalOps(st, n - 1) \o OpsOf(BatchFromBytes(st[EntryKey(BaseKey, n - 1)]))

\* Client c is in write_journal, or has just left it with its header written
\* and no block replayed yet.
InWriteJournal(c) ==
    /\ cl[c].op = "write_batch"
    /\ \/ cl[c].pc \in {"write_journal", "write_header"}
       \/ cl[c].pc = "resolve" /\ cl[c].header = cl[c].block_count

\* C25: the blocks write_journal has written are the entries 0..block_count-1,
\* one per flush and transaction, each of at least 1 and at most
\* MAX_TRANSACT_WRITE_ITEM_SIZE - 2 operations, and one after the other they
\* are the operations of deletions ++ insertions walked so far, each once;
\* when write_journal returns they are all of them and the header counts
\* block_count blocks.
ChunkingPartitions ==
    \A c \in Clients :
        InWriteJournal(c) =>
            /\ \A n \in 0..(cl[c].block_count - 1) :
                   /\ EntryKey(BaseKey, n) \in DOMAIN store
                   /\ BatchLen(BatchFromBytes(store[EntryKey(BaseKey, n)])) >= 1
                   /\ BatchLen(BatchFromBytes(store[EntryKey(BaseKey, n)]))
                          <= MAX_TRANSACT_WRITE_ITEM_SIZE - 2
            /\ JournalOps(store, cl[c].block_count)
                   = SubSeq(OpsOf(cl[c].block_operations), 1, cl[c].next)
            /\ cl[c].pc = "write_journal" => cl[c].nTransact = cl[c].block_count
            /\ cl[c].pc = "write_header" =>
                   /\ cl[c].next = BatchLen(cl[c].block_operations)
                   /\ cl[c].nTransact = cl[c].block_count
            /\ cl[c].pc = "resolve" =>
                   /\ cl[c].next = BatchLen(cl[c].block_operations)
                   /\ cl[c].nTransact = cl[c].block_count + 1
                   /\ HeaderCounts(store, cl[c].block_count)

\* write_journal has returned the header of a batch of deletes and puts cut
\* into three blocks.
ChunkingPartitionsWitness ==
    \E c \in Clients :
        /\ InWriteJournal(c) /\ cl[c].pc = "resolve"
        /\ cl[c].block_count = 3
        /\ cl[c].block_operations.deletions # <<>>
        /\ cl[c].block_operations.insertions # <<>>
        /\ HeaderCounts(store, 3)

\* The sum of key bytes and value bytes of a batch, as write_journal counts it.
BatchBytes(b) == SizeOf(b, 0, BatchLen(b) - 1)

\* C26: when no operation of the batch alone counts more than
\* MAX_BATCH_WRITE_ITEM_BYTES, the block write_journal closes next counts at
\* most MAX_BATCH_WRITE_ITEM_BYTES, and when it is closed before the last
\* operation and below MAX_TRANSACT_WRITE_ITEM_SIZE - 2 operations, the
\* operation after it would have pushed the sum above the bound; and so does
\* every block the call has written.
ChunkingByteBound ==
    \A c \in Clients :
        (/\ cl[c].op = "write_batch"
         /\ cl[c].pc \in {"write_journal", "write_header"}
         /\ \A n \in 0..(BatchLen(cl[c].block_operations) - 1) :
                OpSize(cl[c].block_operations, n) <= MAX_BATCH_WRITE_ITEM_BYTES) =>
            /\ \A n \in 0..(cl[c].block_count - 1) :
                   BatchBytes(BatchFromBytes(store[EntryKey(BaseKey, n)]))
                       <= MAX_BATCH_WRITE_ITEM_BYTES
            /\ cl[c].pc = "write_journal" =>
                   LET b == cl[c].block_operations
                       last == FlushIndex(b, cl[c].next)
                   IN /\ cl[c].next <= last /\ last < BatchLen(b)
                      /\ BatchBytes(BlockOf(b, cl[c].next, last)) = SizeOf(b, cl[c].next, last)
                      /\ SizeOf(b, cl[c].next, last) <= MAX_BATCH_WRITE_ITEM_BYTES
                      /\ (last < BatchLen(b) - 1 /\ last - cl[c].next + 1 < BlockCapacity) =>
                             SizeOf(b, cl[c].next, last + 1) > MAX_BATCH_WRITE_ITEM_BYTES

\* write_journal is about to close a block before the last operation and
\* below MAX_TRANSACT_WRITE_ITEM_SIZE - 2 operations: at the byte bound.
ChunkingByteBoundWitness ==
    \E c \in Clients :
        /\ cl[c].op = "write_batch" /\ cl[c].pc = "write_journal"
        /\ LET b == cl[c].block_operations
               last == FlushIndex(b, cl[c].next)
           IN /\ last < BatchLen(b) - 1
              /\ last - cl[c].next + 1 < BlockCapacity
              /\ SizeOf(b, cl[c].next, last) <= MAX_BATCH_WRITE_ITEM_BYTES
              /\ SizeOf(b, cl[c].next, last + 1) > MAX_BATCH_WRITE_ITEM_BYTES

\* The header of the table counts a block that is not in the table.
HeaderBroken ==
    /\ HeaderKey(BaseKey) \in DOMAIN store
    /\ \E n \in 0..(StoredHeader - 1) : EntryKey(BaseKey, n) \notin DOMAIN store

\* The user keys after the batches of the two writers, one wholly after the
\* other, in either order.
SerialOutcomes ==
    {UserView(ApplyBatch(ApplyBatch(SeedStore, cl[1].block_operations),
                         cl[2].block_operations)),
     UserView(ApplyBatch(ApplyBatch(SeedStore, cl[2].block_operations),
                         cl[1].block_operations))}

\* Both writers have returned from write_batch.
BothReturned == \A w \in Writers : cl[w].op = "write_batch" /\ cl[w].pc = "idle"

\* C27: with two writers on one base_key, each calling write_batch once, the
\* journal is corrupted (a header that counts a missing block, or a call that
\* returned DatabaseRecoveryFailed) only when both calls took the journaled
\* path; two calls on the fast path leave the effect of both in some serial
\* order.  That the corruption happens is ConcurrentWritersWitness.
ConcurrentWriters ==
    /\ (HeaderBroken \/ \E w \in Writers : cl[w].result = "DatabaseRecoveryFailed") =>
           \A w \in Writers : cl[w].op = "write_batch" /\ cl[w].journaled
    /\ (BothReturned /\ \A w \in Writers : ~cl[w].journaled) =>
           UserView(store) \in SerialOutcomes

\* Two journaled calls have interleaved and returned: one of them with
\* DatabaseRecoveryFailed, and the user keys are not the effect of both
\* batches in either serial order.
ConcurrentWritersWitness ==
    /\ BothReturned
    /\ \A w \in Writers : cl[w].journaled
    /\ \E w \in Writers : cl[w].result = "DatabaseRecoveryFailed"
    /\ UserView(store) \notin SerialOutcomes

\* C28: submit of a builder of more than MAX_TRANSACT_WRITE_ITEM_SIZE
\* operations returns TransactUpperLimitSize and of one of no operation Ok,
\* both without a call of the service and with the table as it was; of any
\* other builder it makes exactly one call, of all the operations, and either
\* returns Ok with every put and every delete applied and nothing else
\* changed, or returns the error of the service with the table as it was.
SubmitContract ==
    \A c \in Clients :
        (cl[c].op = "submit" /\ cl[c].pc = "idle") =>
            LET ops == cl[c].arg
                keys == {ops[n].key : n \in DOMAIN ops}
            IN IF Len(ops) > MAX_TRANSACT_WRITE_ITEM_SIZE
               THEN /\ cl[c].result = "TransactUpperLimitSize"
                    /\ cl[c].nTransact = 0
                    /\ store = cl[c].store0
               ELSE IF Len(ops) = 0
               THEN /\ cl[c].result = "Ok"
                    /\ cl[c].nTransact = 0
                    /\ store = cl[c].store0
               ELSE /\ cl[c].nTransact = 1
                    /\ cl[c].lastTx.count = Len(ops)
                    /\ \/ /\ cl[c].result = "Ok"
                          /\ \A n \in DOMAIN ops :
                                 IF ops[n].kind = "put"
                                 THEN read_key_bytes(store, ops[n].key) = Some(ops[n].value)
                                 ELSE ops[n].key \notin DOMAIN store
                          /\ \A k \in (DOMAIN store \cup DOMAIN cl[c].store0) \ keys :
                                 read_key_bytes(store, k) = read_key_bytes(cl[c].store0, k)
                       \/ /\ cl[c].result = "TransactWriteItem"
                          /\ store = cl[c].store0

\* submit of a builder of MAX_TRANSACT_WRITE_ITEM_SIZE + 1 operations has
\* returned TransactUpperLimitSize without a call of the service.
SubmitContractWitness ==
    \E c \in Clients :
        /\ cl[c].op = "submit" /\ cl[c].pc = "idle"
        /\ Len(cl[c].arg) = MAX_TRANSACT_WRITE_ITEM_SIZE + 1
        /\ cl[c].result = "TransactUpperLimitSize"
        /\ cl[c].nTransact = 0

\* The call that wrote entry pos of the journal.
EntryAuthor(r, pos) ==
    IF pos \in DOMAIN r.author.entries THEN r.author.entries[pos] ELSE 0

\* C29: with one writer that calls clear_journal before each write_batch,
\* every block that a replay applies was written by the write_journal call
\* that wrote the header being drained.
OrphansNeverApplied ==
    [][\A c \in Clients :
          (cl[c].pc = "resolve_submit" /\ cl'[c].nTransact = cl[c].nTransact + 1) =>
              EntryAuthor(cl[c], cl[c].header) = cl[c].author.header]_vars

\* Both calls of get_journaling_key have returned.
KeysReturned ==
    \A c \in KeyCallers : cl[c].op = "get_journaling_key" /\ cl[c].pc = "idle"

\* C30: get_journaling_key gives two calls the same key only when they have
\* the same base_key, the same tag and the same pos: the header key of a
\* region is none of its entry keys, entries of different indices have
\* different keys, and the journal keys of different base_keys differ.
JournalKeysInjective ==
    KeysReturned =>
        /\ cl[1].out = cl[2].out => cl[1].arg = cl[2].arg
        /\ \A c \in KeyCallers :
               /\ cl[c].arg[2] = KeyTagEntry =>
                      cl[c].out # HeaderKey(cl[c].arg[1])
               /\ cl[c].arg[2] = KeyTagJournal /\ cl[c].arg[3] = 0 =>
                      cl[c].out = HeaderKey(cl[c].arg[1])
               /\ cl[c].arg[2] = KeyTagEntry =>
                      cl[c].out = EntryKey(cl[c].arg[1], cl[c].arg[3])

\* The header key of the region <<16, 0, 2>> and the key of entry 1 of the
\* region <<16>> have been computed: the second begins with the base_key of
\* the first, and the two differ.
JournalKeysInjectiveWitness ==
    /\ KeysReturned
    /\ cl[1].arg = <<(<<16, 0, 2>>), KeyTagJournal, 0>>
    /\ cl[2].arg = <<(<<16>>), KeyTagEntry, 1>>
    /\ cl[1].out # cl[2].out
    /\ StartsWith(cl[2].out, cl[1].arg[1])

====
